---- MODULE Spec2Model ----
(***************************************************************************)
(* Behaviour layer of the portfolio page (script.js): NavigationManager,   *)
(* ThemeManager, AnimationManager and SmoothScrollManager, each modelled   *)
(* as the event handlers it registers at DOMContentLoaded.  Every handler  *)
(* runs to completion (one UI thread), so one action is one handler.       *)
(***************************************************************************)
EXTENDS Integers, Sequences, FiniteSets, TLC

\* ------------------------------------------------------------------ bounds
MaxPanel == 2          \* elements inside .mobile-nav
MaxTimers == 2         \* pending 300 ms focus timeouts
NumToggles == 2        \* #theme-toggle controls on the page
NumFade == 2           \* .fade-in nodes on the page
MaxCalls == 2          \* calls of animateCounters explored
MaxScrollY == 300      \* largest scroll offset of the page
MaxHeaderRuns == 2     \* header shadings between two frames that are told apart

\* ------------------------------------------------------- the visual tree
\* Nodes that can hold input focus, and `undefined` (the value of an object
\* property that was never assigned).
Node(w, i) == [where |-> w, idx |-> i]
Undefined == Node("undefined", 0)
Body == Node("body", 0)
Trigger == Node("trigger", 0)
Outside == Node("outside", 0)
InPanel(i) == Node("panel", i)
\* Kinds of element the panel may contain: tag and tabindex attribute.
\* "a" elements carry an href and the class mobile-nav-link.
ElementKinds ==
    { [tag |-> "button", tabindex |-> "none"],
      [tag |-> "a",      tabindex |-> "none"],
      [tag |-> "button", tabindex |-> "-1"],
      [tag |-> "div",    tabindex |-> "0"],
      [tag |-> "div",    tabindex |-> "-1"] }

PanelMarkups == UNION { [1..n -> ElementKinds] : n \in 0..MaxPanel }

\* The platform's rules: an element takes focus if it is a control, a link or
\* carries a tabindex; sequential (Tab) navigation skips tabindex="-1".
Focusable(el) == el.tag \in {"button", "a"} \/ el.tabindex # "none"
Tabbable(el) == Focusable(el) /\ el.tabindex # "-1"

\* Viewport widths a resize may report.
Widths == {600, 768, 900}

VARIABLES
    loaded,         \* DOMContentLoaded has run the constructors
    lastEvent,      \* name of the event whose handler ran last
    \* NavigationManager
    panel,          \* children of .mobile-nav, in document order
    navActive,      \* .mobile-nav carries "active"
    btnActive,      \* .toggle carries "active"
    overlayActive,  \* .mobile-overlay carries "active"
    overlayBound,   \* the overlay click listener was registered
    bodyOverflow,   \* document.body.style.overflow
    focus,          \* document.activeElement: Body, Trigger, Outside or InPanel(i)
    focusTimers,    \* pending setTimeout callbacks of openMobileNav
    innerWidth,     \* window.innerWidth
    wasActive,      \* navActive when the last event was dispatched
    \* ThemeManager
    store,          \* localStorage "theme": Unset, "light" or "dark"
    prefersDark,    \* matchMedia("(prefers-color-scheme: dark)").matches
    bodyClasses,    \* theme classes of document.body
    checked,        \* checked state of each #theme-toggle
    ariaLabel,      \* aria-label of each #theme-toggle
    currentThemeSpan,      \* text of #current-theme
    systemPreferenceSpan,  \* text of #system-preference
    userChoice,     \* the theme handleThemeChange saved last on this page, or "none"
    \* AnimationManager
    fadeVisible,    \* which .fade-in nodes carry "visible"
    statsObserved,  \* statsObserver observes .stats
    animateCalls,   \* calls of animateCounters so far
    anims,          \* per counter, the running updateCounter closures
    textContent,    \* per counter, the text it shows
    ticking,        \* the pending flag of setupParallaxEffects
    rafParallax,    \* updateParallax callbacks waiting for the next frame
    parallaxRuns,   \* updateParallax runs in the last rendered frame
    skipped,        \* a scroll event since the last frame found the flag set
    headerRuns,     \* header shadings since the last frame, counted up to MaxHeaderRuns
    fadeSeen,       \* per fade node: it has been reported intersecting
    heroTransform,  \* style.transform of .hero-bg
    headerStyle,    \* style.background and backdropFilter of header
    \* SmoothScrollManager and the scroll position
    pageYOffset,    \* window.pageYOffset
    headerHeight,   \* header.offsetHeight
    targetTop,      \* document position of each target node's top
    scrollRequest   \* the window.scrollTo request in progress, or NoRequest

navVars == <<panel, navActive, btnActive, overlayActive, overlayBound,
             bodyOverflow, focus, focusTimers, innerWidth>>
themeVars == <<store, prefersDark, bodyClasses, checked, ariaLabel,
               currentThemeSpan, systemPreferenceSpan, userChoice>>
animVars == <<fadeVisible, statsObserved, animateCalls, anims, textContent,
              ticking, rafParallax, parallaxRuns, skipped, heroTransform, headerStyle>>
scrollVars == <<pageYOffset, headerHeight, targetTop, scrollRequest>>

vars == <<loaded, lastEvent, wasActive, headerRuns, fadeSeen, navVars, themeVars,
          animVars, scrollVars>>

\* ------------------------------------------------------ NavigationManager
\* The constructor stores the trigger as this.menuBtn; this.navMenuBtn and
\* this.navCloseBtn are read by the methods but never assigned.
menuBtn == Trigger
navMenuBtn == Undefined
navCloseBtn == Undefined

\* el?.focus(): moves focus unless el is undefined.
FocusOn(el, cur) == IF el = Undefined THEN cur ELSE el

\* Handlers take f, the focused node when the handler starts.
openMobileNav(f) ==
    /\ btnActive' = TRUE
    /\ navActive' = TRUE
    /\ overlayActive' = TRUE
    /\ bodyOverflow' = "hidden"
    /\ focusTimers' = focusTimers + 1
    /\ focus' = f

closeMobileNav(f) ==
    /\ btnActive' = FALSE
    /\ navActive' = FALSE
    /\ overlayActive' = FALSE
    /\ bodyOverflow' = ""
    /\ focus' = FocusOn(navMenuBtn, f)
    /\ UNCHANGED focusTimers

\* The class changes toggleMobileNav makes itself are repeated by the method
\* it then calls.
toggleMobileNav(f) ==
    IF navActive THEN closeMobileNav(f) ELSE openMobileNav(f)

\* 'button, [href], input, select, textarea, [tabindex]:not([tabindex="-1"])'
MatchesSelector(el) ==
    \/ el.tag \in {"button", "input", "select", "textarea"}
    \/ el.tag = "a"
    \/ (el.tabindex # "none" /\ el.tabindex # "-1")

RECURSIVE QuerySelectorAll(_)
\* Indices of the panel's first n children that match, in document order.
QuerySelectorAll(n) ==
    IF n = 0 THEN << >>
    ELSE IF MatchesSelector(panel[n])
           THEN Append(QuerySelectorAll(n - 1), n)
           ELSE QuerySelectorAll(n - 1)

focusableElements == QuerySelectorAll(Len(panel))

\* trapFocus(e) with document.activeElement = f: the node focused afterwards
\* and whether e.preventDefault() was called.
trapFocus(shiftKey, f) ==
    LET els == focusableElements IN
    IF Len(els) = 0 THEN [focus |-> f, defaultPrevented |-> FALSE]
    ELSE LET firstElement == InPanel(els[1])
             lastElement == InPanel(els[Len(els)])
         IN  IF shiftKey
               THEN IF f = firstElement
                      THEN [focus |-> lastElement, defaultPrevented |-> TRUE]
                      ELSE [focus |-> f, defaultPrevented |-> FALSE]
               ELSE IF f = lastElement
                      THEN [focus |-> firstElement, defaultPrevented |-> TRUE]
                      ELSE [focus |-> f, defaultPrevented |-> FALSE]

\* The viewport width above which a resize closes the panel.
Breakpoint == 768

\* The resize listener closing at the breakpoint itself too.
onResizeInclusive(w, f) ==
    IF w >= Breakpoint
      THEN closeMobileNav(f)
      ELSE UNCHANGED <<btnActive, navActive, overlayActive, bodyOverflow,
                       focus, focusTimers>>

\* window "resize" listener.
onResize(w, f) ==
    IF w > Breakpoint
      THEN closeMobileNav(f)
      ELSE UNCHANGED <<btnActive, navActive, overlayActive, bodyOverflow,
                       focus, focusTimers>>

\* document "keydown" listener, key Escape.
onEscape(f) ==
    IF navActive
      THEN closeMobileNav(f)
      ELSE UNCHANGED <<btnActive, navActive, overlayActive, bodyOverflow,
                       focus, focusTimers>>

\* Variant that binds the overlay click handler unconditionally.
BindOverlayAlways(active) == TRUE

\* bindEvents: the overlay listener is added only if the overlay is active now.
BindOverlay(active) == active

\* ---------------------------------------------- the platform's Tab order
TabStops == { i \in 1..Len(panel) : Tabbable(panel[i]) }
Max(S) == CHOOSE x \in S : \A y \in S : y <= x
Min(S) == CHOOSE x \in S : \A y \in S : x <= y

\* Where the default action of Tab (Shift+Tab) may move focus from f.  The
\* panel's children are contiguous in document order; what lies before and
\* after the panel is the trigger or some other node.
DefaultTab(shiftKey, f) ==
    LET ahead == IF f.where = "panel"
                   THEN { i \in TabStops : IF shiftKey THEN i < f.idx ELSE i > f.idx }
                   ELSE TabStops
    IN  IF f.where = "panel"
          THEN IF ahead = {} THEN {Trigger, Outside}
               ELSE {InPanel(IF shiftKey THEN Max(ahead) ELSE Min(ahead))}
          ELSE {Trigger, Outside} \cup
               (IF ahead = {} THEN {}
                ELSE {InPanel(IF shiftKey THEN Max(ahead) ELSE Min(ahead))})

\* ------------------------------------------------------------ nav events
Dispatch(name) ==
    /\ loaded
    /\ lastEvent' = name
    /\ wasActive' = navActive
    /\ UNCHANGED loaded

NavDispatch(name) ==
    /\ Dispatch(name)
    /\ UNCHANGED <<themeVars, animVars, scrollVars, headerRuns, fadeSeen>>

\* A click gives focus to the clicked control on some platforms and leaves
\* focus where it was on others.
ClickFocus(node) == {node, focus}

ClickTrigger ==
    /\ navActive \/ focusTimers < MaxTimers
    /\ NavDispatch("click-trigger")
    /\ \E f \in ClickFocus(menuBtn) : toggleMobileNav(f)
    /\ UNCHANGED <<panel, overlayBound, innerWidth>>

\* The overlay is a backdrop shown only while it is active; it is not focusable.
ClickOverlay ==
    /\ overlayActive
    /\ NavDispatch("click-overlay")
    /\ IF overlayBound
         THEN closeMobileNav(Body)
         ELSE /\ focus' = Body
              /\ UNCHANGED <<btnActive, navActive, overlayActive, bodyOverflow, focusTimers>>
    /\ UNCHANGED <<panel, overlayBound, innerWidth>>

\* A click on a child of the panel, which is on screen while it is active; the links are the .mobile-nav-link nodes.
ClickPanel(i) ==
    /\ navActive
    /\ NavDispatch("click-panel")
    /\ \E f \in (IF Focusable(panel[i]) THEN ClickFocus(InPanel(i)) ELSE {Body}) :
          IF panel[i].tag = "a"
            THEN closeMobileNav(f)
            ELSE /\ focus' = f
                 /\ UNCHANGED <<btnActive, navActive, overlayActive, bodyOverflow, focusTimers>>
    /\ UNCHANGED <<panel, overlayBound, innerWidth>>

Resize(w) ==
    /\ NavDispatch("resize")
    /\ innerWidth' = w
    /\ onResize(w, focus)
    /\ UNCHANGED <<panel, overlayBound>>

KeydownEscape ==
    /\ NavDispatch("keydown-escape")
    /\ onEscape(focus)
    /\ UNCHANGED <<panel, overlayBound, innerWidth>>

\* The panel's keydown listener sees the event only when its target, the
\* focused node, is inside the panel.
KeydownTab(shiftKey) ==
    /\ NavDispatch(IF shiftKey THEN "keydown-shift-tab" ELSE "keydown-tab")
    /\ LET r == IF focus.where = "panel"
                  THEN trapFocus(shiftKey, focus)
                  ELSE [focus |-> focus, defaultPrevented |-> FALSE]
       IN  IF r.defaultPrevented
             THEN focus' = r.focus
             ELSE focus' \in DefaultTab(shiftKey, r.focus)
    /\ UNCHANGED <<panel, navActive, btnActive, overlayActive, overlayBound,
                   bodyOverflow, focusTimers, innerWidth>>

\* The 300 ms timeout of openMobileNav fires: this.navCloseBtn?.focus().
FocusTimeout ==
    /\ focusTimers > 0
    /\ NavDispatch("timeout")
    /\ focusTimers' = focusTimers - 1
    /\ focus' = FocusOn(navCloseBtn, focus)
    /\ UNCHANGED <<panel, navActive, btnActive, overlayActive, overlayBound,
                   bodyOverflow, innerWidth>>

\* ------------------------------------------------------------ ThemeManager
\* localStorage.getItem("theme") is null when the key is absent.
Unset == "null"
StoreValues == {Unset, "light", "dark"}
Toggles == 1..NumToggles

\* setDarkTheme that adds its class without removing the other one.
setDarkThemeAddOnly(classes) == classes \cup {"dark-theme"}

setLightTheme(classes) == (classes \ {"dark-theme"}) \cup {"light-theme"}
setDarkTheme(classes) == (classes \ {"light-theme"}) \cup {"dark-theme"}

updateCheckboxStates(isDark) ==
    /\ checked' = [i \in Toggles |-> isDark]
    /\ ariaLabel' = [i \in Toggles |->
                       "Switch to " \o (IF isDark THEN "light" ELSE "dark") \o " theme"]

\* Text updateThemeDisplay writes to #current-theme for a body with `classes`.
updateThemeDisplay(classes) ==
    IF "dark-theme" \in classes THEN "Dark" ELSE "Light"

\* Text updateSystemPreferenceDisplay writes to #system-preference.
updateSystemPreferenceDisplay(matches) ==
    IF matches THEN "Dark" ELSE "Light"

saveThemePreference(theme) == store' = theme /\ userChoice' = theme

\* loadSavedTheme reading the system signal even when a theme is stored.
loadSavedThemeSystemOnly ==
    /\ bodyClasses' = IF prefersDark THEN setDarkTheme(bodyClasses)
                                     ELSE setLightTheme(bodyClasses)
    /\ updateCheckboxStates(prefersDark)
    /\ currentThemeSpan' = updateThemeDisplay(bodyClasses')

loadSavedTheme ==
    LET savedTheme == store
        shouldUseDark == IF savedTheme # Unset
                           THEN savedTheme = "dark"
                           ELSE prefersDark
    IN  /\ bodyClasses' = IF shouldUseDark
                            THEN setDarkTheme(bodyClasses)
                            ELSE setLightTheme(bodyClasses)
        /\ updateCheckboxStates(shouldUseDark)
        /\ currentThemeSpan' = updateThemeDisplay(bodyClasses')

\* handleThemeChange that, on unchecking, clears the stored theme instead of
\* storing "light".
handleThemeChangeClearsOnLight(i, isChecked) ==
    /\ checked' = [checked EXCEPT ![i] = isChecked]
    /\ IF isChecked
         THEN /\ bodyClasses' = setDarkTheme(bodyClasses)
              /\ saveThemePreference("dark")
         ELSE /\ bodyClasses' = setLightTheme(bodyClasses)
              /\ store' = Unset /\ userChoice' = "light"
    /\ currentThemeSpan' = updateThemeDisplay(bodyClasses')
    /\ UNCHANGED ariaLabel

\* "change" listener of checkbox i, whose checked state is now isChecked.
handleThemeChange(i, isChecked) ==
    /\ checked' = [checked EXCEPT ![i] = isChecked]
    /\ IF isChecked
         THEN /\ bodyClasses' = setDarkTheme(bodyClasses)
              /\ saveThemePreference("dark")
         ELSE /\ bodyClasses' = setLightTheme(bodyClasses)
              /\ saveThemePreference("light")
    /\ currentThemeSpan' = updateThemeDisplay(bodyClasses')
    /\ UNCHANGED ariaLabel

\* watchSystemPreference that switches the theme but leaves the toggles alone.
watchSystemPreferenceNoCheckboxes(matches) ==
    /\ systemPreferenceSpan' = updateSystemPreferenceDisplay(matches)
    /\ IF store = Unset
         THEN /\ bodyClasses' = IF matches THEN setDarkTheme(bodyClasses)
                                           ELSE setLightTheme(bodyClasses)
              /\ currentThemeSpan' = updateThemeDisplay(bodyClasses')
              /\ UNCHANGED <<checked, ariaLabel>>
         ELSE UNCHANGED <<bodyClasses, checked, ariaLabel, currentThemeSpan>>

\* watchSystemPreference without its check of the store.
watchSystemPreferenceUnguarded(matches) ==
    /\ systemPreferenceSpan' = updateSystemPreferenceDisplay(matches)
    /\ bodyClasses' = IF matches THEN setDarkTheme(bodyClasses)
                                 ELSE setLightTheme(bodyClasses)
    /\ updateCheckboxStates(matches)
    /\ currentThemeSpan' = updateThemeDisplay(bodyClasses')

\* "change" listener of the media query, whose matches is now `matches`.
watchSystemPreference(matches) ==
    /\ systemPreferenceSpan' = updateSystemPreferenceDisplay(matches)
    /\ IF store = Unset
         THEN LET shouldUseDark == matches
              IN  /\ bodyClasses' = IF shouldUseDark
                                      THEN setDarkTheme(bodyClasses)
                                      ELSE setLightTheme(bodyClasses)
                  /\ updateCheckboxStates(shouldUseDark)
                  /\ currentThemeSpan' = updateThemeDisplay(bodyClasses')
         ELSE UNCHANGED <<bodyClasses, checked, ariaLabel, currentThemeSpan>>

\* ThemeManager.init
ThemeInit ==
    /\ systemPreferenceSpan' = updateSystemPreferenceDisplay(prefersDark)
    /\ loadSavedTheme
    /\ UNCHANGED <<store, prefersDark, userChoice>>

\* ---------------------------------------------------------- theme events
ThemeDispatch(name) ==
    /\ Dispatch(name)
    /\ UNCHANGED <<navVars, animVars, scrollVars, headerRuns, fadeSeen>>

\* The user flips checkbox i; the platform changes its checked state and
\* then fires "change".
ToggleTheme(i) ==
    /\ ThemeDispatch("change-toggle")
    /\ handleThemeChange(i, ~checked[i])
    /\ UNCHANGED <<prefersDark, systemPreferenceSpan>>

\* The system colour scheme flips; the media query fires "change".
SystemPreferenceChange ==
    /\ ThemeDispatch("change-system")
    /\ prefersDark' = ~prefersDark
    /\ watchSystemPreference(prefersDark')
    /\ UNCHANGED <<store, userChoice>>

\* -------------------------------------------------------- AnimationManager
FadeNodes == 1..NumFade

\* The observer callback switching the class off again when the node leaves.
fadeCallbackToggles(n, isIntersecting) ==
    fadeVisible' = [fadeVisible EXCEPT ![n] = isIntersecting]

\* setupScrollAnimations: the observer callback for one entry of node n.
fadeCallback(n, isIntersecting) ==
    fadeVisible' = IF isIntersecting
                     THEN [fadeVisible EXCEPT ![n] = TRUE]
                     ELSE fadeVisible

\* animateCounters: the four counters and their targets.
counters ==
    << [element |-> "projectCount",    target |-> 10],
       [element |-> "clientCount",     target |-> 9],
       [element |-> "experienceCount", target |-> 1],
       [element |-> "techCount",       target |-> 15] >>
Counters == 1..Len(counters)

\* animateCounter(element, target, duration = 2000):
\* increment = target / (duration / 16).
Duration == 2000
FrameInterval == 16
Steps == Duration \div FrameInterval

\* `start` after k additions of increment is k * target / Steps up to the
\* rounding of double arithmetic.  The sign of that rounding error decides
\* the comparison and the ceiling only where k * target / Steps is an
\* integer; which sign the doubles produce there is left open.
Roundings == {-1, 0, 1}

\* The rounding signs that can matter for a closure about to make its
\* (k + 1)-th addition.
RoundingsAt(target, k) ==
    IF ((k + 1) * target) % Steps = 0 THEN Roundings ELSE {0}

\* start < target, for start after k additions with rounding sign e.
Less(k, e, target) ==
    \/ k * target < Steps * target
    \/ (k * target = Steps * target /\ e = -1)

\* Math.ceil(start), for start after k additions with rounding sign e.
Ceil(k, e, target) ==
    IF (k * target) % Steps = 0
      THEN (k * target) \div Steps + (IF e = 1 THEN 1 ELSE 0)
      ELSE (k * target) \div Steps + 1

\* updateCounter asking for another frame in both branches (the running
\* total is held once it has passed the target).
updateCounterKeepsRunning(target, k, e) ==
    IF Less(k + 1, e, target)
      THEN [again |-> TRUE, k |-> k + 1,
            text |-> ToString(Ceil(k + 1, e, target)) \o "+"]
      ELSE [again |-> TRUE, k |-> k,
            text |-> ToString(target) \o "+"]

\* updateCounter writing the ceiling of the running total at the end too.
updateCounterCeilAtEnd(target, k, e) ==
    [again |-> Less(k + 1, e, target), k |-> k + 1,
     text |-> ToString(Ceil(k + 1, e, target)) \o "+"]

\* One run of updateCounter in a closure that has made k additions:
\* whether it asked for another frame, and the text it wrote.
updateCounter(target, k, e) ==
    IF Less(k + 1, e, target)
      THEN [again |-> TRUE, k |-> k + 1,
            text |-> ToString(Ceil(k + 1, e, target)) \o "+"]
      ELSE [again |-> FALSE, k |-> k + 1,
            text |-> ToString(target) \o "+"]

RECURSIVE RunClosures(_, _, _, _)
\* The frame callbacks of one counter run in the order they were requested:
\* the closures that go on, and the text the last of them wrote.
RunClosures(target, ks, e, text) ==
    IF ks = << >> THEN [ks |-> << >>, text |-> text]
    ELSE LET r == updateCounter(target, Head(ks), e)
             rest == RunClosures(target, Tail(ks), e, r.text)
         IN  [ks |-> (IF r.again THEN <<r.k>> ELSE << >>) \o rest.ks,
              text |-> rest.text]

\* animateCounter: a new closure with start = 0 whose updateCounter runs once
\* at once.  animateCounters does so for every counter; r gives the rounding
\* sign of each counter's addition.
animateCounters(r) ==
    /\ anims' = [c \in Counters |->
                   LET u == updateCounter(counters[c].target, 0, r[c])
                   IN  IF u.again THEN Append(anims[c], u.k) ELSE anims[c]]
    /\ textContent' = [c \in Counters |->
                         updateCounter(counters[c].target, 0, r[c]).text]
    /\ animateCalls' = animateCalls + 1

\* The callback leaving .stats observed.
StillObserved == TRUE

\* statsObserver.unobserve(entry.target): .stats is observed no longer.
Unobserve == FALSE

\* setupCounterAnimations: the observer callback for one entry of .stats.
statsCallback(isIntersecting, r) ==
    IF isIntersecting
      THEN /\ animateCounters(r)
           /\ statsObserved' = Unobserve
      ELSE UNCHANGED <<anims, textContent, animateCalls, statsObserved>>

\* updateParallax: the transform for scroll offset `scrolled`, in tenths
\* (translateY(scrolled * 0.5 px) rotate(scrolled * 0.1 deg)).
updateParallax(scrolled) ==
    [translateYx10 |-> scrolled * 5, rotatex10 |-> scrolled]

\* The "scroll" listener asking for a frame whatever the flag says.
parallaxOnScrollUnthrottled ==
    /\ rafParallax' = rafParallax + 1
    /\ ticking' = TRUE
    /\ skipped' = ticking

\* setupParallaxEffects: the "scroll" listener.
parallaxOnScroll ==
    IF ~ticking
      THEN /\ rafParallax' = rafParallax + 1
           /\ ticking' = TRUE
           /\ UNCHANGED skipped
      ELSE /\ skipped' = TRUE
           /\ UNCHANGED <<rafParallax, ticking>>

\* setupHeaderEffects comparing with >= 100 instead of > 100.
headerOnScrollInclusive(currentScroll, classes) ==
    [background |->
        IF currentScroll >= 100
          THEN IF "dark-theme" \in classes THEN "rgba(15, 23, 42, 0.95)"
                                           ELSE "rgba(255, 255, 255, 0.95)"
          ELSE IF "dark-theme" \in classes THEN "rgba(15, 23, 42, 0.8)"
                                           ELSE "rgba(255, 255, 255, 0.8)",
     backdropFilter |-> "blur(20px)"]

\* setupHeaderEffects: the "scroll" listener, for offset currentScroll.
headerOnScroll(currentScroll, classes) ==
    [background |->
        IF currentScroll > 100
          THEN IF "dark-theme" \in classes THEN "rgba(15, 23, 42, 0.95)"
                                           ELSE "rgba(255, 255, 255, 0.95)"
          ELSE IF "dark-theme" \in classes THEN "rgba(15, 23, 42, 0.8)"
                                           ELSE "rgba(255, 255, 255, 0.8)",
     backdropFilter |-> "blur(20px)"]

\* Both "scroll" listeners, for the new offset y.
onScroll(y) ==
    /\ parallaxOnScroll
    /\ headerStyle' = headerOnScroll(y, bodyClasses)
    /\ headerRuns' = Min({headerRuns + 1, MaxHeaderRuns})

\* AnimationManager.init: .stats starts being observed.
AnimInit ==
    /\ statsObserved' = TRUE
    /\ UNCHANGED <<fadeVisible, animateCalls, anims, textContent, ticking,
                   rafParallax, parallaxRuns, skipped, heroTransform, headerStyle,
                   headerRuns, fadeSeen>>

\* ------------------------------------------------------ animation events
AnimDispatch(name) ==
    /\ Dispatch(name)
    /\ UNCHANGED <<navVars, themeVars>>

\* The fade observer reports node n (it stays observed).
FadeEntry(n, isIntersecting) ==
    /\ AnimDispatch(IF isIntersecting THEN "intersect-fade" ELSE "leave-fade")
    /\ fadeCallback(n, isIntersecting)
    /\ fadeSeen' = [fadeSeen EXCEPT ![n] = @ \/ isIntersecting]
    /\ UNCHANGED <<statsObserved, animateCalls, anims, textContent, ticking,
                   rafParallax, parallaxRuns, skipped, heroTransform, headerStyle,
                   headerRuns, scrollVars>>

\* The rounding signs of one frame: one per counter, open only where some
\* closure of that counter reaches an integer point.
FrameRoundings ==
    { r \in [Counters -> Roundings] :
        \A c \in Counters :
            r[c] = 0 \/ \E i \in 1..Len(anims[c]) :
                          r[c] \in RoundingsAt(counters[c].target, anims[c][i]) }

\* .stats crosses the 50% threshold, into view or out of it; the stats
\* observer reports it only while it observes .stats.
StatsEntry(isIntersecting) ==
    /\ animateCalls < MaxCalls
    /\ AnimDispatch("intersect-stats")
    /\ IF statsObserved
         THEN \E r \in [Counters -> RoundingsAt(1, 0)] :
                 statsCallback(isIntersecting, r)
         ELSE UNCHANGED <<anims, textContent, animateCalls, statsObserved>>
    /\ UNCHANGED <<fadeVisible, ticking, rafParallax, parallaxRuns, skipped,
                   heroTransform, headerStyle, headerRuns, scrollVars,
                   fadeSeen>>

\* A rendered frame runs every callback requested before it.
Frame ==
    /\ rafParallax > 0 \/ \E c \in Counters : anims[c] # << >>
    /\ AnimDispatch("frame")
    /\ parallaxRuns' = rafParallax
    /\ rafParallax' = 0
    /\ skipped' = FALSE
    /\ headerRuns' = 0
    /\ IF rafParallax > 0
         THEN /\ heroTransform' = updateParallax(pageYOffset)
              /\ ticking' = FALSE
         ELSE UNCHANGED <<heroTransform, ticking>>
    /\ \E r \in FrameRoundings :
          LET run(c) == RunClosures(counters[c].target, anims[c], r[c], textContent[c])
          IN  /\ anims' = [c \in Counters |-> run(c).ks]
              /\ textContent' = [c \in Counters |-> run(c).text]
    /\ UNCHANGED <<fadeVisible, statsObserved, animateCalls, headerStyle, scrollVars,
                   fadeSeen>>

\* ------------------------------------------------------ SmoothScrollManager
NoRequest == [top |-> 0, target |-> "none", state |-> "none"]
NoNode == "null"

\* document.querySelector(targetId): the fragment of an existing node, or
\* null.  The bare "#" is no selector: the call throws and the handler ends.
querySelector(targetId) ==
    IF targetId \in DOMAIN targetTop THEN targetId ELSE NoNode

\* target.getBoundingClientRect().top: the node's top relative to the viewport.
RectTop(target) == targetTop[target] - pageYOffset

\* smoothScrollTo leaving the header's height out.
smoothScrollToNoHeader(target) ==
    [top |-> RectTop(target) + pageYOffset, target |-> target, state |-> "scrolling"]

\* smoothScrollTo(target): the top passed to window.scrollTo.
smoothScrollTo(target) ==
    LET targetPosition == RectTop(target) + pageYOffset - headerHeight
    IN  [top |-> targetPosition, target |-> target, state |-> "scrolling"]

\* The anchor's "click" listener.
anchorOnClick(href) ==
    LET target == querySelector(href)
    IN  IF target # NoNode
          THEN scrollRequest' = smoothScrollTo(target)
          ELSE UNCHANGED scrollRequest

\* The platform scrolls no further than the page allows.
Clamp(y) == IF y < 0 THEN 0 ELSE IF y > MaxScrollY THEN MaxScrollY ELSE y

\* --------------------------------------------------------- scroll events
ScrollOffsets == {0, 100, 101, MaxScrollY}
HeaderHeights == {60, 80}
TargetIds == {"#contact"}
TargetTops == {0, 100, 200, 370}
Anchors == {"#contact", "#missing", "#"}

ScrollDispatch(name) ==
    /\ Dispatch(name)
    /\ UNCHANGED <<navVars, themeVars, fadeSeen>>

\* The user scrolls to offset y, which ends a smooth scroll in progress.
Scroll(y) ==
    /\ y # pageYOffset
    /\ ScrollDispatch("scroll")
    /\ pageYOffset' = y
    /\ onScroll(y)
    /\ scrollRequest' = NoRequest
    /\ UNCHANGED <<fadeVisible, statsObserved, animateCalls, anims, textContent,
                   parallaxRuns, heroTransform, headerHeight, targetTop>>

ClickAnchor(href) ==
    /\ ScrollDispatch("click " \o href)
    /\ anchorOnClick(href)
    /\ UNCHANGED <<animVars, headerRuns, pageYOffset, headerHeight, targetTop>>

\* The smooth scroll asked for by window.scrollTo reaches its end.
ScrollArrive ==
    /\ scrollRequest.state = "scrolling"
    /\ ScrollDispatch("scroll-arrive")
    /\ scrollRequest' = [scrollRequest EXCEPT !.state = "done"]
    /\ pageYOffset' = Clamp(scrollRequest.top)
    /\ IF pageYOffset' # pageYOffset
         THEN onScroll(pageYOffset')
         ELSE UNCHANGED <<rafParallax, ticking, skipped, headerStyle, headerRuns>>
    /\ UNCHANGED <<fadeVisible, statsObserved, animateCalls, anims, textContent,
                   parallaxRuns, heroTransform, headerHeight, targetTop>>

\* ------------------------------------------------------- the page's start
\* The markup before any script has run.
NavMarkup ==
    /\ panel \in PanelMarkups
    /\ navActive = FALSE
    /\ btnActive = FALSE
    /\ overlayActive \in BOOLEAN
    /\ overlayBound = FALSE
    /\ bodyOverflow = ""
    /\ focus = Body
    /\ focusTimers = 0
    /\ innerWidth \in Widths
    /\ wasActive = FALSE

ThemeMarkup ==
    /\ store \in StoreValues
    /\ prefersDark \in BOOLEAN
    /\ bodyClasses \in {{}, {"light-theme"}, {"dark-theme"}}
    /\ checked \in [Toggles -> BOOLEAN]
    /\ ariaLabel = [i \in Toggles |-> ""]
    /\ currentThemeSpan = ""
    /\ systemPreferenceSpan = ""
    /\ userChoice = "none"

AnimMarkup ==
    /\ fadeVisible = [n \in FadeNodes |-> FALSE]
    /\ statsObserved = FALSE
    /\ animateCalls = 0
    /\ anims = [c \in Counters |-> << >>]
    /\ textContent = [c \in Counters |-> "0+"]
    /\ ticking = FALSE
    /\ rafParallax = 0
    /\ parallaxRuns = 0
    /\ skipped = FALSE
    /\ headerRuns = 0
    /\ fadeSeen = [n \in FadeNodes |-> FALSE]
    /\ heroTransform = updateParallax(0)
    /\ headerStyle = [background |-> "", backdropFilter |-> ""]

ScrollMarkup ==
    /\ pageYOffset \in ScrollOffsets
    /\ headerHeight \in HeaderHeights
    /\ targetTop \in [TargetIds -> TargetTops]
    /\ scrollRequest = NoRequest

\* One markup of each part, for the runs that explore another part.
NavFixed == NavMarkup /\ panel = << >> /\ ~overlayActive /\ innerWidth = 900
ThemeFixed ==
    /\ ThemeMarkup /\ store \in {"light", "dark"} /\ ~prefersDark
    /\ bodyClasses = {} /\ checked = [i \in Toggles |-> FALSE]
ScrollFixed ==
    /\ ScrollMarkup /\ pageYOffset = 0 /\ headerHeight = 60
    /\ targetTop = [t \in TargetIds |-> 200]

Start == loaded = FALSE /\ lastEvent = "none"

Init == Start /\ NavMarkup /\ ThemeMarkup /\ AnimMarkup /\ ScrollMarkup
InitNav == Start /\ NavMarkup /\ ThemeFixed /\ AnimMarkup /\ ScrollFixed
InitTheme == Start /\ NavFixed /\ ThemeMarkup /\ AnimMarkup /\ ScrollFixed
InitAnim == Start /\ NavFixed /\ ThemeFixed /\ AnimMarkup /\ ScrollFixed
InitScroll == Start /\ NavFixed /\ ThemeFixed /\ AnimMarkup /\ ScrollMarkup
InitPage == Start /\ NavFixed /\ ThemeMarkup /\ AnimMarkup /\ ScrollFixed

\* The DOMContentLoaded listener constructs the managers.
DOMContentLoaded ==
    /\ ~loaded
    /\ loaded' = TRUE
    /\ lastEvent' = "DOMContentLoaded"
    /\ overlayBound' = BindOverlay(overlayActive)
    /\ UNCHANGED <<panel, navActive, btnActive, overlayActive, bodyOverflow,
                   focus, focusTimers, innerWidth, wasActive>>
    /\ ThemeInit
    /\ AnimInit
    /\ UNCHANGED scrollVars

NextNav ==
    \/ DOMContentLoaded
    \/ ClickTrigger
    \/ ClickOverlay
    \/ \E i \in 1..Len(panel) : ClickPanel(i)
    \/ \E w \in Widths : Resize(w)
    \/ KeydownEscape
    \/ \E shiftKey \in BOOLEAN : KeydownTab(shiftKey)
    \/ FocusTimeout

NextTheme ==
    \/ DOMContentLoaded
    \/ \E i \in Toggles : ToggleTheme(i)
    \/ SystemPreferenceChange

NextAnim ==
    \/ DOMContentLoaded
    \/ \E n \in FadeNodes, b \in BOOLEAN : FadeEntry(n, b)
    \/ \E b \in BOOLEAN : StatsEntry(b)
    \/ Frame

NextScroll ==
    \/ DOMContentLoaded
    \/ \E y \in ScrollOffsets : Scroll(y)
    \/ \E href \in Anchors : ClickAnchor(href)
    \/ ScrollArrive
    \/ Frame

\* The page as a whole: theme events interleaved with navigation and scroll
\* events on one fixed markup.
NextPage ==
    \/ DOMContentLoaded
    \/ \E i \in Toggles : ToggleTheme(i)
    \/ SystemPreferenceChange
    \/ ClickTrigger
    \/ KeydownEscape
    \/ \E y \in ScrollOffsets : Scroll(y)
    \/ Frame

Next == NextNav \/ NextTheme \/ NextAnim \/ NextScroll

Spec == Init /\ [][Next]_vars
SpecNav == InitNav /\ [][NextNav]_vars
SpecTheme == InitTheme /\ [][NextTheme]_vars
SpecAnim == InitAnim /\ [][NextAnim]_vars
SpecScroll == InitScroll /\ [][NextScroll]_vars
SpecPage == InitPage /\ [][NextPage]_vars
\* The browser keeps delivering animation frames while one is requested.
SpecAnimFair == SpecAnim /\ WF_vars(Frame)

\* ------------------------------------------------------------------ claims
AppliedDark == "dark-theme" \in bodyClasses
Closed == ~navActive /\ ~btnActive /\ ~overlayActive /\ bodyOverflow = ""

\* C1: every step that takes the panel from open to closed leaves the
\* active markers and the scroll lock cleared and input focus on the trigger.
C1_CloseReturnsFocus ==
    [][(navActive /\ ~navActive') => (Closed' /\ focus' = Trigger)]_vars

\* C2: while the panel is open and focus is on one of its tab stops, a Tab
\* or Shift+Tab key press leaves focus inside the panel.
C2_TabStaysInPanel ==
    [][(/\ navActive
        /\ focus.where = "panel"
        /\ Tabbable(panel[focus.idx])
        /\ MatchesSelector(panel[focus.idx])
        /\ lastEvent' \in {"keydown-tab", "keydown-shift-tab"})
       => focus'.where = "panel"]_vars

\* C3: once the store holds "light" or "dark", a system-preference change
\* leaves the applied theme and every toggle's checked state as they were
\* and writes only the system-preference label.
C3_StoredChoiceIgnoresSystem ==
    [][(store \in {"light", "dark"} /\ lastEvent' = "change-system")
       => /\ bodyClasses' = bodyClasses
          /\ checked' = checked
          /\ currentThemeSpan' = currentThemeSpan
          /\ systemPreferenceSpan' = (IF prefersDark' THEN "Dark" ELSE "Light")]_vars

\* The user chose Light on this page, the system then changed to dark, and
\* the page is still light.
C3_Witness ==
    /\ lastEvent = "change-system"
    /\ userChoice = "light"
    /\ store = "light"
    /\ prefersDark
    /\ bodyClasses = {"light-theme"}
    /\ systemPreferenceSpan = "Dark"

\* C4: right after loadSavedTheme the applied theme is the stored one if a
\* theme is stored and the system signal otherwise, and every toggle is
\* checked exactly when the applied theme is dark.
C4_LoadAppliesStoredElseSystem ==
    lastEvent = "DOMContentLoaded" =>
        LET expectDark == CASE store = "dark" -> TRUE
                            [] store = "light" -> FALSE
                            [] store = Unset -> prefersDark
        IN  /\ bodyClasses = (IF expectDark THEN {"dark-theme"} ELSE {"light-theme"})
            /\ \A i \in Toggles : checked[i] = expectDark

\* Nothing stored and a dark system signal: loaded dark, toggles checked.
C4_Witness ==
    /\ lastEvent = "DOMContentLoaded"
    /\ store = Unset
    /\ prefersDark
    /\ bodyClasses = {"dark-theme"}
    /\ \A i \in Toggles : checked[i]

\* C5: once the page is loaded, every toggle control is checked exactly
\* when the applied theme is dark.
C5_TogglesAgree ==
    loaded => \A i \in Toggles : checked[i] = AppliedDark

\* The number a counter shows: the n with text = n followed by "+".
Num(text) == CHOOSE n \in 0..100 : text = ToString(n) \o "+"

\* C6: each counter shows "0+" until the stats section is seen, from then on
\* a value that never decreases from one step to the next and never exceeds
\* its target, and its target followed by "+" once its animation has ended.
C6_CounterRunsToTarget ==
    [][\A c \in Counters :
         LET T == counters[c].target
         IN  /\ animateCalls = 0 => textContent[c] = "0+"
             /\ Num(textContent'[c]) >= Num(textContent[c])
             /\ Num(textContent'[c]) <= T
             /\ (animateCalls' > 0 /\ anims'[c] = << >>)
                   => textContent'[c] = ToString(T) \o "+"]_vars

\* One trigger, every animation ended, the four targets on show.
C6_Witness ==
    /\ animateCalls = 1
    /\ lastEvent = "frame"
    /\ \A c \in Counters : anims[c] = << >>
    /\ textContent = <<"10+", "9+", "1+", "15+">>

\* C7: animateCounters runs at most once; the step that runs it starts one
\* animation per counter and ends the observation of .stats; after that no
\* step starts an animation or lowers a displayed value, whatever .stats
\* does in the viewport.
C7_CountersStartOnce ==
    [][/\ animateCalls' <= 1
       /\ animateCalls' > animateCalls
             => /\ statsObserved /\ ~statsObserved'
                /\ \A c \in Counters : Len(anims'[c]) = 1
       /\ (loaded /\ ~statsObserved)
             => /\ animateCalls' = animateCalls
                /\ ~statsObserved'
                /\ \A c \in Counters :
                      /\ Len(anims'[c]) <= Len(anims[c])
                      /\ Num(textContent'[c]) >= Num(textContent[c])]_vars

\* .stats crossed its threshold again after every counter was done.
C7_Witness ==
    /\ lastEvent = "intersect-stats"
    /\ animateCalls = 1
    /\ ~statsObserved
    /\ \A c \in Counters : anims[c] = << >>
    /\ textContent = <<"10+", "9+", "1+", "15+">>

\* C8: at most one updateParallax callback is pending and at most one ran in
\* the last frame; a callback is requested only by a step that finds the
\* flag clear and sets it; the flag is set exactly while a callback is
\* pending and is cleared only by the frame that runs it.
C8_OneParallaxPerFrame ==
    [][/\ rafParallax' <= 1
       /\ parallaxRuns' <= 1
       /\ ticking' <=> rafParallax' = 1
       /\ rafParallax' > rafParallax => (~ticking /\ ticking')
       /\ (ticking /\ ~ticking') => (lastEvent' = "frame" /\ parallaxRuns' = 1)]_vars

\* A scroll event arrived while an update was pending, and one is pending.
C8_Witness ==
    /\ lastEvent = "scroll"
    /\ skipped
    /\ ticking
    /\ rafParallax = 1

\* C9: after a resize event, the panel is closed with markers and scroll
\* lock cleared if the width is above 768, and is as it was otherwise.
C9_ResizeAboveBreakpointCloses ==
    lastEvent = "resize" =>
        IF innerWidth > 768 THEN Closed ELSE navActive = wasActive

\* A resize to 900 px found the panel open and closed it.
C9_Witness ==
    /\ lastEvent = "resize"
    /\ innerWidth = 900
    /\ wasActive
    /\ Closed

\* C10, as stated: when the scroll an anchor asked for ends, the target's
\* top is exactly headerHeight below the top of the viewport.
C10_TargetEndsBelowHeader ==
    lastEvent = "scroll-arrive" =>
        targetTop[scrollRequest.target] - pageYOffset = headerHeight

\* C10, amended: a click on an anchor whose fragment names a node requests
\* (top relative to the viewport + scroll offset - header height), a click
\* on any other anchor requests nothing, and the scroll ends with the
\* target's top headerHeight below the viewport's top whenever the offset
\* requested lies within the page's scroll range.
C10_ScrollRequestExact ==
    [][/\ \A href \in Anchors :
            lastEvent' = "click " \o href =>
                IF href \in TargetIds
                  THEN scrollRequest' =
                          [top |-> (targetTop[href] - pageYOffset) + pageYOffset
                                      - headerHeight,
                           target |-> href, state |-> "scrolling"]
                  ELSE scrollRequest' = scrollRequest
       /\ (lastEvent' = "scroll-arrive" /\ scrollRequest.top \in 0..MaxScrollY)
             => targetTop[scrollRequest.target] - pageYOffset' = headerHeight]_vars

\* A scroll asked for by an anchor ended with the target below the header.
C10_Witness ==
    /\ lastEvent = "scroll-arrive"
    /\ scrollRequest.state = "done"
    /\ pageYOffset > 0
    /\ targetTop[scrollRequest.target] - pageYOffset = headerHeight

\* C11: whenever the panel is open it is marked active, the page scroll is
\* locked, and input focus is on the trigger or on a node of the panel.
C11_OpenHoldsFocus ==
    navActive =>
        /\ btnActive /\ overlayActive
        /\ bodyOverflow = "hidden"
        /\ focus.where \in {"panel", "trigger"}

\* C12: when the 300 ms timeout of openMobileNav fires after the panel was
\* closed, focus moves to the close control inside the panel.
C12_LateTimeoutMovesFocus ==
    [][(lastEvent' = "timeout" /\ ~navActive) => focus'.where = "panel"]_vars

\* C13: the overlay click handler is bound only if the overlay is active when
\* the listeners are bound, the binding never changes afterwards, and without
\* it no overlay click changes the open/closed state.
C13_OverlayClickUnbound ==
    [][/\ (~loaded /\ loaded') => (overlayBound' = overlayActive)
       /\ loaded => (overlayBound' = overlayBound)
       /\ (lastEvent' = "click-overlay" /\ ~overlayBound) =>
              UNCHANGED <<navActive, btnActive, overlayActive, bodyOverflow>>]_vars

C13_Witness ==
    /\ lastEvent = "click-overlay"
    /\ ~overlayBound
    /\ navActive /\ overlayActive /\ bodyOverflow = "hidden"

\* C14: while nothing is stored, every change of the system colour scheme
\* applies the new scheme to the body and to every toggle, and leaves the
\* store empty, so the next change is followed as well.
C14_UnsetFollowsSystem ==
    [][(store = Unset /\ lastEvent' = "change-system") =>
          /\ prefersDark' = ~prefersDark
          /\ bodyClasses' = {IF prefersDark' THEN "dark-theme" ELSE "light-theme"}
          /\ \A i \in Toggles : checked'[i] = prefersDark'
          /\ store' = Unset]_vars

\* The scheme has flipped to dark with nothing stored, and the page followed.
C14_Witness ==
    /\ lastEvent = "change-system"
    /\ store = Unset /\ userChoice = "none"
    /\ prefersDark /\ bodyClasses = {"dark-theme"}
    /\ \A i \in Toggles : checked[i]

\* C15: a user toggle stores the choice just made ("dark" if the toggle is now
\* checked, "light" otherwise), which is also the theme applied to the body;
\* and no event of the page ever empties a store that holds a value.
C15_ToggleStoresChoice ==
    [][/\ lastEvent' = "change-toggle" =>
            \E i \in Toggles :
                /\ checked'[i] = ~checked[i]
                /\ store' = (IF checked'[i] THEN "dark" ELSE "light")
                /\ bodyClasses' = {store' \o "-theme"}
       /\ store # Unset => store' # Unset]_vars

\* A stored choice is still there after a later scroll with the panel open.
C15_Witness ==
    /\ lastEvent = "scroll"
    /\ store = "dark" /\ userChoice = "dark"
    /\ navActive /\ pageYOffset > 0
    /\ ~prefersDark /\ bodyClasses = {"dark-theme"}

C17_CounterTerminates ==
    /\ \A c \in Counters :
          (anims[c] # << >>) ~>
              (anims[c] = << >> /\
               textContent[c] = ToString(counters[c].target) \o "+")
    /\ [][\A c \in Counters :
            /\ (anims[c] # << >> /\ anims'[c] = << >>) =>
                   /\ Head(anims[c]) + 1 \in {Steps, Steps + 1}
                   /\ textContent'[c] = ToString(counters[c].target) \o "+"
            /\ (animateCalls > 0 /\ anims[c] = << >>) =>
                   /\ anims'[c] = << >>
                   /\ textContent'[c] = textContent[c]]_vars

\* Every counter has ended, and a later observer event left the texts alone.
C17_Witness ==
    /\ lastEvent = "intersect-fade"
    /\ animateCalls = 1 /\ ~statsObserved
    /\ \A c \in Counters :
          /\ anims[c] = << >>
          /\ textContent[c] = ToString(counters[c].target) \o "+"

\* C18: a fade node carries the revealed mark exactly if the observer has
\* reported it intersecting at some time; the mark is set by such a report and
\* no later report, intersecting or not, takes it away.
C18_RevealIsMonotonic ==
    [][\A n \in FadeNodes :
          /\ fadeVisible[n] = fadeSeen[n]
          /\ fadeVisible'[n] = fadeSeen'[n]
          /\ fadeVisible[n] => fadeVisible'[n]
          /\ (~fadeVisible[n] /\ fadeVisible'[n]) => lastEvent' = "intersect-fade"]_vars

\* Every node has been revealed, and one of them has just been reported out
\* of view: it keeps its mark.
C18_Witness ==
    /\ lastEvent = "leave-fade"
    /\ \A n \in FadeNodes : fadeSeen[n] /\ fadeVisible[n]

\* C19: once ThemeManager has initialised, the body carries exactly one of
\* the classes dark-theme and light-theme.
C19_ExactlyOneThemeClass ==
    loaded => Cardinality(bodyClasses \cap {"dark-theme", "light-theme"}) = 1

\* The theme was switched from light to dark by a toggle: one class only.
C19_Witness ==
    /\ loaded /\ lastEvent = "change-toggle"
    /\ userChoice = "dark" /\ prefersDark
    /\ bodyClasses = {"dark-theme"}
    /\ \E i \in Toggles : ~checked[i]

\* C20: once initialised, every toggle's accessible label names the theme a
\* toggle would switch to: "Switch to light theme" when the dark theme is
\* applied, "Switch to dark theme" when the light theme is.
C20_LabelNamesOtherTheme ==
    loaded =>
        \A i \in Toggles :
            ariaLabel[i] = IF AppliedDark THEN "Switch to light theme"
                                          ELSE "Switch to dark theme"

====
